---- MODULE Spec2Model ----
(***************************************************************************)
(* Working Calendar: the task store (routes/tasks.js over models/Task.js)  *)
(* and the statistics roll-ups (routes/stats.js).                          *)
(*                                                                         *)
(* Strings are sequences of character codes (ASCII), so that trimming,    *)
(* the lexicographic comparison MongoDB applies to strings and the        *)
(* formatting of month bounds are computed, not assumed.                   *)
(* Identifiers carry their run-time type: the owner id of a request is a   *)
(* string (it comes out of the JWT payload), the userId of a stored task   *)
(* is an ObjectId.                                                         *)
(***************************************************************************)
EXTENDS Integers, Sequences, FiniteSets, TLC

\* tasks, nextId: the tasks collection and the next fresh _id; now: the clock;
\* res: the last response sent; creator: history, the owner each id was created for;
\* calls: the requests in flight, each between its handler and its store command;
\* log: history, the store commands in the order the store ran them
VARIABLES tasks, nextId, now, res, creator, calls, log

vars == <<tasks, nextId, now, res, creator, calls, log>>

----------------------------------------------------------------------------
(* Bounds of the model *)

\* number of task ids the store ever hands out
MaxTasks == 2

\* last value of the clock
MaxClock == 1

\* number of requests that are in flight together
MaxCalls == 3

----------------------------------------------------------------------------
(* Characters and strings *)

SP == 32

DASH == 45

Digit(k) == 48 + k

\* "general", the default category of the schema
General == <<103, 101, 110, 101, 114, 97, 108>>

\* String.prototype.trim, the setter mongoose installs for `trim: true`
RECURSIVE TrimLeft(_)
TrimLeft(s) ==
    IF s # <<>> /\ Head(s) = SP THEN TrimLeft(Tail(s)) ELSE s

RECURSIVE TrimRight(_)
TrimRight(s) ==
    IF s # <<>> /\ s[Len(s)] = SP THEN TrimRight(SubSeq(s, 1, Len(s) - 1)) ELSE s

Trim(s) == TrimRight(TrimLeft(s))

\* s <= t in the binary comparison MongoDB uses for $gte / $lte on strings
RECURSIVE StrLe(_, _)
StrLe(s, t) ==
    IF s = <<>> THEN TRUE
    ELSE IF t = <<>> THEN FALSE
    ELSE IF Head(s) < Head(t) THEN TRUE
    ELSE IF Head(s) > Head(t) THEN FALSE
    ELSE StrLe(Tail(s), Tail(t))

\* n.toString() for 0 <= n <= 9999
NumToString(n) ==
    IF n < 10 THEN <<Digit(n)>>
    ELSE IF n < 100 THEN <<Digit(n \div 10), Digit(n % 10)>>
    ELSE IF n < 1000 THEN <<Digit(n \div 100), Digit((n \div 10) % 10), Digit(n % 10)>>
    ELSE <<Digit(n \div 1000), Digit((n \div 100) % 10), Digit((n \div 10) % 10), Digit(n % 10)>>

\* pad = (n) => n.toString().padStart(2, '0')
pad(n) ==
    IF Len(NumToString(n)) < 2 THEN <<Digit(0)>> \o NumToString(n) ELSE NumToString(n)

----------------------------------------------------------------------------
(* Identifiers *)

Owners == {1, 2}

\* req.user.id: the id of the token payload, a string
ReqUserId(o) == [t |-> "str", v |-> o]

\* mongoose casts a string to the ObjectId type of the schema path
CastObjectId(x) == [t |-> "oid", v |-> x.v]

\* the :id parameters tried: 0 stands for a string that is not a Mongo id
BadId == 0

IdParams == 0 .. MaxTasks

isMongoId(id) == id # BadId

\* the slot of an id that holds no document
NoTask == [none |-> TRUE]

----------------------------------------------------------------------------
(* Request bodies *)

\* A JSON body: `has` is the set of keys it carries; the value of a key it
\* does not carry is a filler that is never read.  "$set.progress" is the key
\* progress of a nested $set document.
Blank ==
    [has |-> {}, date |-> <<>>, title |-> <<>>, progress |-> 0, category |-> <<>>,
     priority |-> 0, userId |-> 0, createTime |-> 0, setProgress |-> 0]

Has(b, k) == k \in b.has

With(b, k, v) ==
    CASE k = "date" -> [b EXCEPT !.has = @ \cup {k}, !.date = v]
      [] k = "title" -> [b EXCEPT !.has = @ \cup {k}, !.title = v]
      [] k = "progress" -> [b EXCEPT !.has = @ \cup {k}, !.progress = v]
      [] k = "category" -> [b EXCEPT !.has = @ \cup {k}, !.category = v]
      [] k = "priority" -> [b EXCEPT !.has = @ \cup {k}, !.priority = v]
      [] k = "userId" -> [b EXCEPT !.has = @ \cup {k}, !.userId = v]
      [] k = "createTime" -> [b EXCEPT !.has = @ \cup {k}, !.createTime = v]
      [] k = "$set.progress" -> [b EXCEPT !.has = @ \cup {k}, !.setProgress = v]

\* isInt({ min, max }) of express-validator, on the integers the model sends
isInt(v, min, max) == v >= min /\ v <= max

\* notEmpty() of express-validator: the string is not of length 0
notEmpty(s) == Len(s) # 0

----------------------------------------------------------------------------
(* models/Task.js *)

\* the document Task.create builds: casts, setters and defaults of the schema
NewDoc(userId, date, title, progress, category, priority, t) ==
    [userId |-> CastObjectId(userId), date |-> date, title |-> Trim(title),
     progress |-> progress, category |-> Trim(category), priority |-> priority,
     createTime |-> t, updateTime |-> t]

\* the validators of the schema, run by save(): required, min, max
SchemaValid(doc) ==
    /\ Len(doc.date) > 0
    /\ Len(doc.title) > 0
    /\ doc.progress >= 0 /\ doc.progress <= 100
    /\ doc.priority >= 1 /\ doc.priority <= 3

\* TaskSchema.pre('save'): updateTime = new Date()
updateTimestamp(doc, t) == [doc EXCEPT !.updateTime = t]

\* the update document findOneAndUpdate applies: the top-level keys of the body
\* and the keys of its $set, cast by the schema paths (setters included, no
\* validators), then TaskSchema.pre('findOneAndUpdate') sets updateTime
ApplyUpdate(doc, b, t) ==
    [userId |-> IF Has(b, "userId") THEN CastObjectId(ReqUserId(b.userId)) ELSE doc.userId,
     date |-> IF Has(b, "date") THEN b.date ELSE doc.date,
     title |-> IF Has(b, "title") THEN Trim(b.title) ELSE doc.title,
     progress |-> IF Has(b, "progress") THEN b.progress
                  ELSE IF Has(b, "$set.progress") THEN b.setProgress
                  ELSE doc.progress,
     category |-> IF Has(b, "category") THEN Trim(b.category) ELSE doc.category,
     priority |-> IF Has(b, "priority") THEN b.priority ELSE doc.priority,
     createTime |-> IF Has(b, "createTime") THEN b.createTime ELSE doc.createTime,
     updateTime |-> t]

\* the filter without its userId conjunct
MatchAnyOwner(id, o) ==
    /\ id \in 1 .. MaxTasks
    /\ tasks[id] # NoTask

\* the filter { _id: id, userId: req.user.id }, cast by the schema
Match(id, o) ==
    /\ id \in 1 .. MaxTasks
    /\ tasks[id] # NoTask
    /\ tasks[id].userId = CastObjectId(ReqUserId(o))

----------------------------------------------------------------------------
(* routes/tasks.js *)

\* the JSON of a stored task, as the responses carry it
Json(ts, id) == [id |-> id, task |-> ts[id]]

NoBody == [id |-> 0, task |-> NoTask]

\* what a handler leaves behind: the store and the response it sent
Respond(op, status, body) == [op |-> op, status |-> status, body |-> body]

Out(ts, op, status, body) == [tasks |-> ts, res |-> Respond(op, status, body)]

\* Task.find({ userId: req.user.id, ... }): the filter is cast by the schema
Find(ts, o) ==
    {i \in 1 .. MaxTasks : ts[i] # NoTask /\ ts[i].userId = CastObjectId(ReqUserId(o))}

\* GET /: the tasks of the owner, all of them
ListAll(ts, o) == Find(ts, o)

\* GET /?date=: if (date) filter.date = date
ListByDate(ts, o, date) ==
    IF date # <<>> THEN {i \in Find(ts, o) : ts[i].date = date} ELSE Find(ts, o)

\* GET /range: date: { $gte: start, $lte: end }
ListByRange(ts, o, start, end) ==
    {i \in Find(ts, o) : StrLe(start, ts[i].date) /\ StrLe(ts[i].date, end)}

\* the validation chain of POST /
CreateValid(b) ==
    /\ Has(b, "date")
    /\ Has(b, "title") /\ notEmpty(b.title)
    /\ Has(b, "progress") => isInt(b.progress, 0, 100)
    /\ Has(b, "priority") => isInt(b.priority, 1, 3)

\* the document built with the userId of the body in place of req.user.id
CreateDocOwnerFromBody(o, b, t) ==
    NewDoc(ReqUserId(b.userId), b.date, b.title,
           IF Has(b, "progress") THEN b.progress ELSE 0,
           IF Has(b, "category") THEN b.category ELSE General,
           IF Has(b, "priority") THEN b.priority ELSE 1,
           t)

\* const { date, title, progress = 0, category = 'general', priority = 1 } = req.body
\* and the document Task.create builds from it at time t
CreateDoc(o, b, t) ==
    NewDoc(ReqUserId(o), b.date, b.title,
           IF Has(b, "progress") THEN b.progress ELSE 0,
           IF Has(b, "category") THEN b.category ELSE General,
           IF Has(b, "priority") THEN b.priority ELSE 1,
           t)

\* POST /: the document is built at time t0, validated, stamped by the pre-save
\* hook at time t1 and inserted under the fresh id
CreateOut(o, b, id, t0, t1) ==
    IF ~CreateValid(b) THEN Out(tasks, "create", 400, NoBody)
    ELSE IF ~SchemaValid(CreateDoc(o, b, t0)) THEN Out(tasks, "create", 500, NoBody)
    ELSE LET ts == [tasks EXCEPT ![id] = updateTimestamp(CreateDoc(o, b, t0), t1)]
         IN  Out(ts, "create", 201, Json(ts, id))

\* the validation chain of PUT /:id
UpdateValid(id, b) ==
    /\ isMongoId(id)
    /\ Has(b, "progress") => isInt(b.progress, 0, 100)
    /\ Has(b, "priority") => isInt(b.priority, 1, 3)

\* PUT /:id: the whole body is the update document
UpdateOut(o, id, b, t) ==
    IF ~UpdateValid(id, b) THEN Out(tasks, "update", 400, NoBody)
    ELSE IF ~Match(id, o) THEN Out(tasks, "update", 404, NoBody)
    ELSE LET ts == [tasks EXCEPT ![id] = ApplyUpdate(tasks[id], b, t)]
         IN  Out(ts, "update", 200, Json(ts, id))

\* the validation chain of PUT /:id/progress
ProgressValid(id, b) ==
    /\ isMongoId(id)
    /\ Has(b, "progress") /\ isInt(b.progress, 0, 100)

\* PUT /:id/progress: the update document is { progress } alone
ProgressOut(o, id, b, t) ==
    IF ~ProgressValid(id, b) THEN Out(tasks, "progress", 400, NoBody)
    ELSE IF ~Match(id, o) THEN Out(tasks, "progress", 404, NoBody)
    ELSE LET ts == [tasks EXCEPT
                      ![id] = ApplyUpdate(tasks[id], With(Blank, "progress", b.progress), t)]
         IN  Out(ts, "progress", 200, Json(ts, id))

\* DELETE /:id
DeleteOut(o, id) ==
    IF ~isMongoId(id) THEN Out(tasks, "delete", 400, NoBody)
    ELSE IF ~Match(id, o) THEN Out(tasks, "delete", 404, NoBody)
    ELSE Out([tasks EXCEPT ![id] = NoTask], "delete", 200, NoBody)

\* a request to POST /: Date.now() is read when the document is built and
\* again in the pre-save hook, and the clock may have moved in between
Create(o, b) ==
    \E t1 \in {now, now + 1} :
      LET out == CreateOut(o, b, nextId, now, t1)
      IN  /\ t1 <= MaxClock
          /\ nextId <= MaxTasks
          /\ tasks' = out.tasks
          /\ res' = out.res
          /\ nextId' = IF out.res.status = 201 THEN nextId + 1 ELSE nextId
          /\ creator' = IF out.res.status = 201 THEN [creator EXCEPT ![nextId] = o] ELSE creator
          /\ now' = IF out.res.status = 201 THEN t1 ELSE now
          /\ UNCHANGED <<calls, log>>

UpdateFields(o, id, b) ==
    LET out == UpdateOut(o, id, b, now)
    IN  /\ tasks' = out.tasks
        /\ res' = out.res
        /\ UNCHANGED <<nextId, now, creator, calls, log>>

UpdateProgress(o, id, b) ==
    LET out == ProgressOut(o, id, b, now)
    IN  /\ tasks' = out.tasks
        /\ res' = out.res
        /\ UNCHANGED <<nextId, now, creator, calls, log>>

Delete(o, id) ==
    LET out == DeleteOut(o, id)
    IN  /\ tasks' = out.tasks
        /\ res' = out.res
        /\ UNCHANGED <<nextId, now, creator, calls, log>>

\* time passes between two requests
Tick ==
    /\ now < MaxClock
    /\ now' = now + 1
    /\ UNCHANGED <<tasks, nextId, res, creator, calls, log>>

\* the orders in which the collection may hand its documents to a query
RECURSIVE NaturalOrders(_)
NaturalOrders(S) ==
    IF S = {} THEN {<<>>}
    ELSE UNION {{<<i>> \o q : q \in NaturalOrders(S \ {i})} : i \in S}

\* a query parameter: absent, or the string it was given
NoParam == [given |-> FALSE, v |-> <<>>]

Param(s) == [given |-> TRUE, v |-> s]

\* the sort key with createTime before date
BeforeCreateTimeFirst(ts, i, j) ==
    \/ ts[i].createTime < ts[j].createTime
    \/ ts[i].createTime = ts[j].createTime /\ StrLe(ts[i].date, ts[j].date) /\ ts[i].date # ts[j].date

\* .sort({ date: 1, createTime: 1 }): document i goes strictly before document j
Before(ts, i, j) ==
    \/ StrLe(ts[i].date, ts[j].date) /\ ts[i].date # ts[j].date
    \/ ts[i].date = ts[j].date /\ ts[i].createTime < ts[j].createTime

\* id i put into the sorted sequence q, behind the ids it does not go before
RECURSIVE SortInsert(_, _, _)
SortInsert(ts, q, i) ==
    IF q = <<>> THEN <<i>>
    ELSE IF Before(ts, i, Head(q)) THEN <<i>> \o q
    ELSE <<Head(q)>> \o SortInsert(ts, Tail(q), i)

\* the documents of the sequence q in sorted order; documents of equal keys
\* stay in the order the collection handed them over
RECURSIVE SortTasks(_, _)
SortTasks(ts, q) ==
    IF q = <<>> THEN <<>>
    ELSE SortInsert(ts, SortTasks(ts, SubSeq(q, 1, Len(q) - 1)), q[Len(q)])

\* Task.find(filter).sort(...): the documents of the set S, met in the order
\* nat, sorted, as the JSON array of the response
FindSorted(ts, S, nat) ==
    LET q == SortTasks(ts, SelectSeq(nat, LAMBDA i : i \in S))
    IN  [k \in 1 .. Len(q) |-> Json(ts, q[k])]

\* GET /: the date parameter is optional, res.json answers 200
GetTasksOut(ts, o, date, nat) ==
    Respond("list", 200, FindSorted(ts, ListByDate(ts, o, date.v), nat))

\* GET /range: start and end have to be strings
GetRangeOut(ts, o, start, end, nat) ==
    IF ~(start.given /\ end.given) THEN Respond("range", 400, NoBody)
    ELSE Respond("range", 200, FindSorted(ts, ListByRange(ts, o, start.v, end.v), nat))

\* a request to GET /
GetTasks(o, date) ==
    \E nat \in NaturalOrders(1 .. MaxTasks) :
        /\ res' = GetTasksOut(tasks, o, date, nat)
        /\ UNCHANGED <<tasks, nextId, now, creator, calls, log>>

\* a request to GET /range
GetRange(o, start, end) ==
    \E nat \in NaturalOrders(1 .. MaxTasks) :
        /\ res' = GetRangeOut(tasks, o, start, end, nat)
        /\ UNCHANGED <<tasks, nextId, now, creator, calls, log>>

----------------------------------------------------------------------------
(* Requests in flight together *)

\* a request slot nothing was sent on
Idle ==
    [pc |-> "idle", kind |-> "none", o |-> 0, id |-> 0, upd |-> Blank, t |-> 0,
     res |-> Respond("none", 0, NoBody)]

\* the handler answered from its validation chain, no store command was sent
Refused(kind, o, id) ==
    [pc |-> "done", kind |-> kind, o |-> o, id |-> id, upd |-> Blank, t |-> 0,
     res |-> Respond(kind, 400, NoBody)]

\* the handler awaits its store command; t is the updateTime the pre hook put
\* into the update document
Awaiting(kind, o, id, upd, t) ==
    [pc |-> "sent", kind |-> kind, o |-> o, id |-> id, upd |-> upd, t |-> t,
     res |-> Respond("none", 0, NoBody)]

\* the command with { upsert: true }: a filter that matches nothing inserts
FindOneAndUpdateUpsert(ts, o, id, upd, t) ==
    IF id \in 1 .. MaxTasks /\ ts[id] # NoTask /\ ts[id].userId = CastObjectId(ReqUserId(o))
    THEN [tasks |-> [ts EXCEPT ![id] = ApplyUpdate(ts[id], upd, t)], found |-> TRUE]
    ELSE [tasks |-> [ts EXCEPT ![id] =
                        ApplyUpdate(NewDoc(ReqUserId(o), <<>>, <<>>, 0, General, 1, t), upd, t)],
          found |-> TRUE]

\* Task.findOneAndUpdate(filter, update, { new: true }): one command of the
\* store, which finds the document and writes it in one step, or finds none
FindOneAndUpdate(ts, o, id, upd, t) ==
    IF id \in 1 .. MaxTasks /\ ts[id] # NoTask /\ ts[id].userId = CastObjectId(ReqUserId(o))
    THEN [tasks |-> [ts EXCEPT ![id] = ApplyUpdate(ts[id], upd, t)], found |-> TRUE]
    ELSE [tasks |-> ts, found |-> FALSE]

\* Task.findOneAndDelete(filter): one command of the store
FindOneAndDelete(ts, o, id) ==
    IF id \in 1 .. MaxTasks /\ ts[id] # NoTask /\ ts[id].userId = CastObjectId(ReqUserId(o))
    THEN [tasks |-> [ts EXCEPT ![id] = NoTask], found |-> TRUE]
    ELSE [tasks |-> ts, found |-> FALSE]

\* the requests are numbered as they arrive: c is the next one
Arrives(c) ==
    /\ calls[c].pc = "idle"
    /\ \A d \in 1 .. c - 1 : calls[d].pc # "idle"

\* an entry of the log
Entry(c, kind, o, id, upd, t, doc) ==
    [call |-> c, kind |-> kind, o |-> o, id |-> id, upd |-> upd, t |-> t, doc |-> doc]

\* POST /, its insert logged
PostTask(o, b) ==
    \E t1 \in {now, now + 1} :
      LET out == CreateOut(o, b, nextId, now, t1)
      IN  /\ t1 <= MaxClock
          /\ nextId <= MaxTasks
          /\ tasks' = out.tasks
          /\ res' = out.res
          /\ nextId' = IF out.res.status = 201 THEN nextId + 1 ELSE nextId
          /\ creator' = IF out.res.status = 201 THEN [creator EXCEPT ![nextId] = o] ELSE creator
          /\ now' = IF out.res.status = 201 THEN t1 ELSE now
          /\ log' = IF out.res.status = 201
                    THEN Append(log, Entry(0, "create", o, nextId, Blank, t1, out.tasks[nextId]))
                    ELSE log
          /\ UNCHANGED calls

\* PUT /:id up to its await: validation, then the pre hook reads the clock and
\* the command is on its way
SendUpdate(c, o, id, b) ==
    /\ Arrives(c)
    /\ calls' = [calls EXCEPT ![c] = IF UpdateValid(id, b) THEN Awaiting("update", o, id, b, now)
                                     ELSE Refused("update", o, id)]
    /\ res' = IF UpdateValid(id, b) THEN res ELSE Respond("update", 400, NoBody)
    /\ UNCHANGED <<tasks, nextId, now, creator, log>>

\* PUT /:id/progress up to its await
SendProgress(c, o, id, b) ==
    /\ Arrives(c)
    /\ calls' = [calls EXCEPT ![c] =
                    IF ProgressValid(id, b)
                    THEN Awaiting("progress", o, id, With(Blank, "progress", b.progress), now)
                    ELSE Refused("progress", o, id)]
    /\ res' = IF ProgressValid(id, b) THEN res ELSE Respond("progress", 400, NoBody)
    /\ UNCHANGED <<tasks, nextId, now, creator, log>>

\* DELETE /:id up to its await
SendDelete(c, o, id) ==
    /\ Arrives(c)
    /\ calls' = [calls EXCEPT ![c] = IF isMongoId(id) THEN Awaiting("delete", o, id, Blank, 0)
                                     ELSE Refused("delete", o, id)]
    /\ res' = IF isMongoId(id) THEN res ELSE Respond("delete", 400, NoBody)
    /\ UNCHANGED <<tasks, nextId, now, creator, log>>

\* the store runs the command of call c, and the handler answers from what
\* the command returned
Commit(c) ==
    LET r == calls[c]
        out == IF r.kind = "delete" THEN FindOneAndDelete(tasks, r.o, r.id)
               ELSE FindOneAndUpdate(tasks, r.o, r.id, r.upd, r.t)
        answer == IF ~out.found THEN Respond(r.kind, 404, NoBody)
                  ELSE IF r.kind = "delete" THEN Respond(r.kind, 200, NoBody)
                  ELSE Respond(r.kind, 200, Json(out.tasks, r.id))
    IN  /\ r.pc = "sent"
        /\ tasks' = out.tasks
        /\ calls' = [calls EXCEPT ![c] = [r EXCEPT !.pc = "done", !.res = answer]]
        /\ res' = answer
        /\ log' = Append(log, Entry(c, r.kind, r.o, r.id, r.upd, r.t, NoTask))
        /\ UNCHANGED <<nextId, now, creator>>

----------------------------------------------------------------------------
(* routes/stats.js *)

\* new Date(year, month, 0).getDate(): the last day of the month
LastDay(year, month) ==
    IF month \in {4, 6, 9, 11} THEN 30
    ELSE IF month # 2 THEN 31
    ELSE IF year % 4 = 0 /\ (year % 100 # 0 \/ year % 400 = 0) THEN 29
    ELSE 28

\* `${year}-${pad(month)}-01`
MonthStart(year, month) ==
    NumToString(year) \o <<DASH>> \o pad(month) \o <<DASH>> \o pad(1)

\* `${year}-${pad(month)}-${pad(lastDay)}`
MonthEnd(year, month) ==
    NumToString(year) \o <<DASH>> \o pad(month) \o <<DASH>> \o pad(LastDay(year, month))

\* tasks.reduce((sum, t) => sum + (t.progress || 0), 0)
RECURSIVE SumProgress(_, _)
SumProgress(ts, S) ==
    IF S = {} THEN 0
    ELSE LET i == CHOOSE j \in S : TRUE
         IN  ts[i].progress + SumProgress(ts, S \ {i})

\* Math.round(sum / count): the nearest integer, a half going up
MathRound(sum, count) == (2 * sum + count) \div (2 * count)

\* the entry of one date in a roll-up
DayEntry(ts, S, date) ==
    LET G == {i \in S : ts[i].date = date}
    IN  [date |-> date, count |-> Cardinality(G),
         averageProgress |-> MathRound(SumProgress(ts, G), Cardinality(G))]

\* the tasks GET /monthly reads
MonthlyTasks(ts, o, year, month) ==
    {i \in Find(ts, o) :
        /\ StrLe(MonthStart(year, month), ts[i].date)
        /\ StrLe(ts[i].date, MonthEnd(year, month))}

\* the validation chain of GET /monthly
MonthlyValid(year, month) == year >= 1970 /\ month >= 1 /\ month <= 12

\* GET /monthly: total, averageProgress and the entries of `daily` (their order
\* is the order of Object.entries, left out here)
Monthly(ts, o, year, month) ==
    LET S == MonthlyTasks(ts, o, year, month)
        total == Cardinality(S)
    IN  [total |-> total,
         averageProgress |-> IF total = 0 THEN 0 ELSE MathRound(SumProgress(ts, S), total),
         daily |-> {DayEntry(ts, S, d) : d \in {ts[i].date : i \in S}}]

\* { $match: { userId: req.user.id } }: an aggregation pipeline is sent as it is,
\* the string is not cast to the ObjectId of the schema path
AggregateMatch(ts, o) ==
    {i \in 1 .. MaxTasks : ts[i] # NoTask /\ ts[i].userId = ReqUserId(o)}

\* { $sort: { _id: 1 } } over the groups: ascending by the date string
RECURSIVE SortDates(_)
SortDates(D) ==
    IF D = {} THEN <<>>
    ELSE LET d == CHOOSE x \in D : \A y \in D : StrLe(x, y)
         IN  <<d>> \o SortDates(D \ {d})

\* GET /daily-completion
DailyCompletion(ts, o) ==
    LET S == AggregateMatch(ts, o)
        dates == SortDates({ts[i].date : i \in S})
    IN  [k \in 1 .. Len(dates) |-> DayEntry(ts, S, dates[k])]

\* a request to GET /monthly
GetMonthly(o, year, month) ==
    /\ res' = IF MonthlyValid(year, month)
              THEN Respond("monthly", 200, Monthly(tasks, o, year, month))
              ELSE Respond("monthly", 400, NoBody)
    /\ UNCHANGED <<tasks, nextId, now, creator, calls, log>>

\* a request to GET /daily-completion
GetDailyCompletion(o) ==
    /\ res' = Respond("daily", 200, DailyCompletion(tasks, o))
    /\ UNCHANGED <<tasks, nextId, now, creator, calls, log>>

----------------------------------------------------------------------------
(* The requests tried *)

\* "2024-02-29"
D0229 == <<50, 48, 50, 52, 45, 48, 50, 45, 50, 57>>

\* "2024-03-01"
D0301 == <<50, 48, 50, 52, 45, 48, 51, 45, 48, 49>>

\* "2024-02-1x", not a calendar day
D021x == <<50, 48, 50, 52, 45, 48, 50, 45, 49, 120>>

\* "a"
TitleA == <<97>>

\* " a "
TitleSpaced == <<32, 97, 32>>

\* " "
TitleBlank == <<32>>

\* " x"
CategoryX == <<32, 120>>

DT(d, t) == With(With(Blank, "date", d), "title", t)

CreateBodies ==
    {DT(D0229, TitleA), DT(D0229, TitleSpaced), DT(D0229, TitleBlank), DT(D0229, <<>>),
     DT(<<>>, TitleA), With(Blank, "date", D0229), With(Blank, "title", TitleA),
     With(DT(D0229, TitleA), "progress", 1),
     With(DT(D0229, TitleA), "progress", 101),
     With(With(DT(D0229, TitleA), "priority", 3), "category", CategoryX),
     With(DT(D0229, TitleA), "priority", 4)}

UpdateBodies ==
    {Blank,
     With(Blank, "progress", 1), With(Blank, "progress", 101),
     With(With(Blank, "priority", 3), "category", CategoryX),
     With(Blank, "priority", 0),
     With(Blank, "$set.progress", 500),
     With(Blank, "createTime", MaxClock)}
    \cup {With(Blank, "userId", o) : o \in Owners}

ProgressBodies ==
    {Blank, With(Blank, "progress", 1), With(Blank, "progress", 101)}

----------------------------------------------------------------------------

Init ==
    /\ tasks = [i \in 1 .. MaxTasks |-> NoTask]
    /\ nextId = 1
    /\ now = 0
    /\ res = Respond("none", 0, NoBody)
    /\ creator = [i \in 1 .. MaxTasks |-> 0]
    /\ calls = [c \in 1 .. MaxCalls |-> Idle]
    /\ log = <<>>

Next ==
    \/ \E o \in Owners, b \in CreateBodies : Create(o, b)
    \/ \E o \in Owners, id \in IdParams, b \in UpdateBodies : UpdateFields(o, id, b)
    \/ \E o \in Owners, id \in IdParams, b \in ProgressBodies : UpdateProgress(o, id, b)
    \/ \E o \in Owners, id \in IdParams : Delete(o, id)
    \/ Tick

Spec == Init /\ [][Next]_vars

\* the requests of the statistics runs: dates and progress vary
StatsCreateBodies ==
    {DT(d, TitleA) : d \in {D0229, D0301, D021x}}
    \cup {With(DT(D0229, TitleA), "progress", 1)}

StatsUpdateBodies ==
    {With(Blank, "date", D0301), With(Blank, "title", TitleBlank), With(Blank, "progress", 2)}

Years == {1969, 2023, 2024}

Months == {0, 2, 3, 13}

NextStats ==
    \/ \E o \in Owners, b \in StatsCreateBodies : Create(o, b)
    \/ \E o \in Owners, id \in IdParams, b \in StatsUpdateBodies : UpdateFields(o, id, b)
    \/ \E o \in Owners, id \in IdParams : Delete(o, id)
    \/ \E o \in Owners, y \in Years, m \in Months : GetMonthly(o, y, m)
    \/ \E o \in Owners : GetDailyCompletion(o)
    \/ Tick

SpecStats == Init /\ [][NextStats]_vars

\* the requests of the listing runs: dates and creation times vary
ListDates == {D0229, D0301, D021x}

ListCreateBodies == {DT(d, TitleA) : d \in ListDates}

ListUpdateBodies == {With(Blank, "date", D0229), With(Blank, "createTime", MaxClock)}

DateParams == {NoParam, Param(<<>>)} \cup {Param(d) : d \in ListDates}

RangeParams == {NoParam} \cup {Param(d) : d \in ListDates}

NextList ==
    \/ \E o \in Owners, b \in ListCreateBodies : Create(o, b)
    \/ \E o \in Owners, id \in IdParams, b \in ListUpdateBodies : UpdateFields(o, id, b)
    \/ \E o \in Owners, id \in IdParams : Delete(o, id)
    \/ \E o \in Owners, d \in DateParams : GetTasks(o, d)
    \/ \E o \in Owners, s \in RangeParams, e \in RangeParams : GetRange(o, s, e)
    \/ Tick

SpecList == Init /\ [][NextList]_vars

\* the requests of the concurrent runs: one caller aims at the first task, or
\* at no task, with two updates that share one field
Calls == 1 .. MaxCalls

Callers == {1}

ConcIds == {BadId, 1}

ConcCreateBodies == {DT(D0229, TitleA)}

ConcUpdateBodies ==
    {With(With(Blank, "date", D0301), "progress", 1),
     With(With(Blank, "progress", 2), "priority", 3)}

ConcProgressBodies == {With(Blank, "progress", 3)}

NextConc ==
    \/ \E o \in Owners, b \in ConcCreateBodies : PostTask(o, b)
    \/ \E c \in Calls, o \in Callers, id \in ConcIds, b \in ConcUpdateBodies : SendUpdate(c, o, id, b)
    \/ \E c \in Calls, o \in Callers, id \in ConcIds, b \in ConcProgressBodies : SendProgress(c, o, id, b)
    \/ \E c \in Calls, o \in Callers, id \in ConcIds : SendDelete(c, o, id)
    \/ \E c \in Calls : Commit(c)
    \/ Tick

SpecConc == Init /\ [][NextConc]_vars

----------------------------------------------------------------------------
(* The claims *)

\* the owner a stored task belongs to
OwnerOf(ts, id) == ts[id].userId.v

\* every id some result computed for owner o contains or aggregates
VisibleTo(ts, o) ==
    ListAll(ts, o)
    \cup UNION {ListByDate(ts, o, d) : d \in {D0229, D0301, D021x}}
    \cup ListByRange(ts, o, <<>>, <<127>>)
    \cup UNION {MonthlyTasks(ts, o, y, m) : y \in {2023, 2024}, m \in {2, 3}}
    \cup AggregateMatch(ts, o)

\* C1: a task created under owner A is in no result computed for another owner
\* B, and no update or delete request of B changes or removes it
OwnerIsolation ==
    \A id \in 1 .. MaxTasks, o \in Owners :
        (tasks[id] # NoTask /\ creator[id] # o) =>
            /\ id \notin VisibleTo(tasks, o)
            /\ \A b \in UpdateBodies : UpdateOut(o, id, b, now).tasks[id] = tasks[id]
            /\ \A b \in ProgressBodies : ProgressOut(o, id, b, now).tasks[id] = tasks[id]
            /\ DeleteOut(o, id).tasks[id] = tasks[id]

\* C2: every stored task has 0 <= progress <= 100 and priority in {1, 2, 3}
BoundsInvariant ==
    \A id \in 1 .. MaxTasks :
        tasks[id] # NoTask =>
            /\ tasks[id].progress >= 0 /\ tasks[id].progress <= 100
            /\ tasks[id].priority \in {1, 2, 3}

\* C3: no step changes the owner or the creation time of a task that stays in
\* the store (its id is the key it is stored under)
CreationFieldsImmutable ==
    [][\A id \in 1 .. MaxTasks :
          (tasks[id] # NoTask /\ tasks'[id] # NoTask) =>
              /\ tasks'[id].userId = tasks[id].userId
              /\ tasks'[id].createTime = tasks[id].createTime]_vars

\* C4: updatedAt >= createdAt for every stored task
UpdatedNotBeforeCreated ==
    \A id \in 1 .. MaxTasks :
        tasks[id] # NoTask => tasks[id].updateTime >= tasks[id].createTime

\* the fields of the five a body names, $set included
Named(b) ==
    (b.has \cap {"date", "title", "progress", "category", "priority"})
    \cup (IF Has(b, "$set.progress") THEN {"progress"} ELSE {})

\* the fields of a task other than updateTime that differ between d and e
Changed(d, e) ==
    {f \in {"userId", "date", "title", "progress", "category", "priority", "createTime"} :
        d[f] # e[f]}

\* C5: a successful update-fields step changes, of the task, only fields the
\* request names and updatedAt, and a successful update-progress step only
\* progress and updatedAt; every other task is left as it was
PartialUpdateFrame ==
    [][/\ \A o \in Owners, id \in 1 .. MaxTasks, b \in UpdateBodies :
            (UpdateFields(o, id, b) /\ res'.status = 200) =>
                /\ Changed(tasks[id], tasks'[id]) \subseteq Named(b)
                /\ \A j \in 1 .. MaxTasks : j # id => tasks'[j] = tasks[j]
       /\ \A o \in Owners, id \in 1 .. MaxTasks, b \in ProgressBodies :
            (UpdateProgress(o, id, b) /\ res'.status = 200) =>
                /\ Changed(tasks[id], tasks'[id]) \subseteq {"progress"}
                /\ \A j \in 1 .. MaxTasks : j # id => tasks'[j] = tasks[j]]_vars

\* a well-formed id that, with owner o, matches no stored task: it was never
\* handed out, its task was deleted, or its task belongs to another owner
NoSuchTask(id, o) ==
    /\ id \in 1 .. MaxTasks
    /\ tasks[id] = NoTask \/ OwnerOf(tasks, id) # o

\* the body passes the range checks of the update requests
InRange(b) ==
    /\ Has(b, "progress") => (b.progress >= 0 /\ b.progress <= 100)
    /\ Has(b, "priority") => (b.priority >= 1 /\ b.priority <= 3)

IsDigit(c) == c >= 48 /\ c <= 57

\* YYYY-MM-DD: ten characters, digits around two dashes
IsCanonicalDate(s) ==
    /\ Len(s) = 10
    /\ \A k \in 1 .. 10 : IF k \in {5, 8} THEN s[k] = DASH ELSE IsDigit(s[k])

\* C7: every stored task has a date of the form YYYY-MM-DD and a title that
\* is not empty once trimmed
DateTitleValid ==
    \A id \in 1 .. MaxTasks :
        tasks[id] # NoTask =>
            /\ IsCanonicalDate(tasks[id].date)
            /\ Trim(tasks[id].title) # <<>>

\* the value read back for an optional field: what the caller sent, or the default
Sent(b, k, default) == IF Has(b, k) THEN b[k] ELSE default

\* C8 as stated: the task an accepted create answers with has exactly the date,
\* title, progress, category and priority the caller sent, and the defaults
\* for what it left out
RoundTripExact ==
    [][\A o \in Owners, b \in CreateBodies :
          (Create(o, b) /\ res'.status = 201) =>
              /\ res'.body.task.date = b.date
              /\ res'.body.task.title = b.title
              /\ res'.body.task.progress = Sent(b, "progress", 0)
              /\ res'.body.task.category = Sent(b, "category", General)
              /\ res'.body.task.priority = Sent(b, "priority", 1)]_vars

\* C8 as amended: the task an accepted create answers with, which is also the
\* one the owner's listing holds under the new id, has the date, progress and
\* priority the caller sent, the title and the category the caller sent with
\* the white space around them removed, and the defaults for what it left out
RoundTripTrimmed ==
    \A o \in Owners, b \in CreateBodies, t1 \in {now, now + 1} :
        LET out == CreateOut(o, b, nextId, now, t1)
            t == out.tasks[nextId]
        IN  (nextId <= MaxTasks /\ out.res.status = 201) =>
                /\ nextId \in ListAll(out.tasks, o)
                /\ out.res.body = [id |-> nextId, task |-> t]
                /\ t.date = b.date
                /\ t.title = Trim(b.title)
                /\ t.progress = Sent(b, "progress", 0)
                /\ t.category = Trim(Sent(b, "category", General))
                /\ t.priority = Sent(b, "priority", 1)

\* a create that sent a category with a leading blank and a priority was accepted
RoundTripWitness ==
    /\ res.op = "create" /\ res.status = 201
    /\ res.body.task.category = <<120>>
    /\ res.body.task.priority = 3
    /\ res.body.id \in ListAll(tasks, OwnerOf(tasks, res.body.id))

\* the integer nearest to sum / n, a half going up
RoundHalfUp(sum, n) ==
    CHOOSE r \in 0 .. 100 : 2 * r * n <= 2 * sum + n /\ 2 * sum + n < 2 * (r + 1) * n

\* the tasks of owner o
TasksOf(ts, o) == {i \in 1 .. MaxTasks : ts[i] # NoTask /\ OwnerOf(ts, i) = o}

\* the entry a roll-up owes to one date of the set S of tasks
RollupEntry(ts, S, date) ==
    LET G == {i \in S : ts[i].date = date}
    IN  [date |-> date, count |-> Cardinality(G),
         averageProgress |-> RoundHalfUp(SumProgress(ts, G), Cardinality(G))]

\* C9: dailyCompletion(owner) has one entry for each date the owner has a task
\* on, with that date's count and rounded mean, in ascending order of date
DailyCompletionCorrect ==
    \A o \in Owners :
        LET q == DailyCompletion(tasks, o)
            S == TasksOf(tasks, o)
        IN  /\ {q[k] : k \in 1 .. Len(q)} = {RollupEntry(tasks, S, d) : d \in {tasks[i].date : i \in S}}
            /\ \A k \in 1 .. Len(q) - 1 : StrLe(q[k].date, q[k + 1].date) /\ q[k].date # q[k + 1].date

\* the number a string of digits stands for
RECURSIVE ToNumber(_)
ToNumber(s) ==
    IF s = <<>> THEN 0 ELSE 10 * ToNumber(SubSeq(s, 1, Len(s) - 1)) + (s[Len(s)] - 48)

\* the days of a month of the calendar
DaysIn(year, month) ==
    IF month = 2
    THEN (IF year % 400 = 0 \/ (year % 4 = 0 /\ year % 100 # 0) THEN 29 ELSE 28)
    ELSE IF month \in {1, 3, 5, 7, 8, 10, 12} THEN 31 ELSE 30

\* the date is a day of the given month
InMonth(date, year, month) ==
    /\ IsCanonicalDate(date)
    /\ ToNumber(SubSeq(date, 1, 4)) = year
    /\ ToNumber(SubSeq(date, 6, 7)) = month
    /\ ToNumber(SubSeq(date, 9, 10)) \in 1 .. DaysIn(year, month)

\* C10: monthly(owner, year, month) counts and averages exactly the owner's
\* tasks whose date is a day of that month, with one daily entry for each of
\* their dates, and a month outside the accepted range is answered 400
MonthlyCorrect ==
    /\ \A o \in Owners, y \in {2023, 2024}, m \in {2, 3} :
          LET S == {i \in TasksOf(tasks, o) : InMonth(tasks[i].date, y, m)}
              r == Monthly(tasks, o, y, m)
          IN  /\ r.total = Cardinality(S)
              /\ r.averageProgress =
                    (IF S = {} THEN 0 ELSE RoundHalfUp(SumProgress(tasks, S), Cardinality(S)))
              /\ r.daily = {RollupEntry(tasks, S, d) : d \in {tasks[i].date : i \in S}}
    /\ res.op = "monthly" => res.status \in {200, 400}

\* task a is not behind task b: the earlier date first, and of two tasks of
\* one date the one created earlier
DateThenCreated(a, b) ==
    IF a.date = b.date THEN a.createTime <= b.createTime
    ELSE StrLe(a.date, b.date)

\* the response r is a 200 that carries the tasks of S as they are stored, each
\* once, in ascending order
ListsExactly(r, S) ==
    /\ r.status = 200
    /\ Len(r.body) = Cardinality(S)
    /\ {r.body[k].id : k \in 1 .. Len(r.body)} = S
    /\ \A k \in 1 .. Len(r.body) : r.body[k].task = tasks[r.body[k].id]
    /\ \A k \in 1 .. Len(r.body) - 1 : DateThenCreated(r.body[k].task, r.body[k + 1].task)

\* C11: list-all answers exactly the owner's stored tasks, list-by-date those
\* of the given date, list-by-range those with start <= date <= end as strings
\* (none when start > end); every answer is a 200, empty or not, sorted
\* ascending by date and, within a date, by creation time
ListingCorrect ==
    \A o \in Owners, nat \in NaturalOrders(1 .. MaxTasks) :
        /\ ListsExactly(GetTasksOut(tasks, o, NoParam, nat), TasksOf(tasks, o))
        /\ \A d \in ListDates :
              ListsExactly(GetTasksOut(tasks, o, Param(d), nat),
                           {i \in TasksOf(tasks, o) : tasks[i].date = d})
        /\ \A s \in ListDates, e \in ListDates :
              /\ ListsExactly(GetRangeOut(tasks, o, Param(s), Param(e), nat),
                              {i \in TasksOf(tasks, o) :
                                  StrLe(s, tasks[i].date) /\ StrLe(tasks[i].date, e)})
              /\ ~StrLe(s, e) => GetRangeOut(tasks, o, Param(s), Param(e), nat).body = <<>>

\* a range answer of two tasks in which the task created second comes first
ListingWitness ==
    /\ res.op = "range" /\ res.status = 200
    /\ Len(res.body) = 2
    /\ res.body[1].id = 2
    /\ res.body[1].task.date # res.body[2].task.date

\* the store nothing was done to
EmptyStore == [i \in 1 .. MaxTasks |-> NoTask]

\* the request of the log entry e names a stored task of its owner
Owned(ts, e) == e.id \in TasksOf(ts, e.o)

\* the request of the log entry e run alone, as a whole, on the store ts
SerialStep(ts, e) ==
    IF e.kind = "create" THEN [ts EXCEPT ![e.id] = e.doc]
    ELSE IF ~Owned(ts, e) THEN ts
    ELSE IF e.kind = "delete" THEN [ts EXCEPT ![e.id] = NoTask]
    ELSE [ts EXCEPT ![e.id] = ApplyUpdate(ts[e.id], e.upd, e.t)]

\* the requests of the sequence q run one after another
RECURSIVE SerialRun(_, _)
SerialRun(ts, q) ==
    IF q = <<>> THEN ts ELSE SerialRun(SerialStep(ts, Head(q)), Tail(q))

\* the store as the first k entries of the log leave it when run serially
SerialPrefix(k) == SerialRun(EmptyStore, SubSeq(log, 1, k))

\* C12: whatever the interleaving of update-fields, update-progress and delete
\* requests, the store is at every moment the result of running the committed
\* requests one after another, each as a whole, in the order of the log; each
\* request is answered as in that serial run; and an update ordered after a
\* delete of its task is answered not-found and leaves the task absent
AtomicMutation ==
    /\ tasks = SerialPrefix(Len(log))
    /\ \A k \in 1 .. Len(log) :
          LET e == log[k]
              before == SerialPrefix(k - 1)
              after == SerialPrefix(k)
          IN  e.kind # "create" =>
                /\ calls[e.call].pc = "done"
                /\ calls[e.call].res.status = (IF Owned(before, e) THEN 200 ELSE 404)
                /\ (e.kind # "delete" /\ Owned(before, e)) =>
                       calls[e.call].res.body = [id |-> e.id, task |-> after[e.id]]
                /\ \A j \in 1 .. k - 1 :
                       (log[j].kind = "delete" /\ log[j].id = e.id
                          /\ calls[log[j].call].res.status = 200) =>
                           /\ calls[e.call].res.status = 404
                           /\ after[e.id] = NoTask
                           /\ tasks[e.id] = NoTask

\* an update, a delete and a second update of one task, committed in this
\* order and answered 200, 200 and 404, where the second update was stamped
\* before the first: it was in flight while the other two ran
AtomicWitness ==
    \E i \in 1 .. Len(log), j \in 1 .. Len(log), k \in 1 .. Len(log) :
        /\ i < j /\ j < k
        /\ log[i].kind \in {"update", "progress"}
        /\ log[j].kind = "delete"
        /\ log[k].kind \in {"update", "progress"} /\ log[k].kind # log[i].kind
        /\ log[i].id = log[j].id /\ log[j].id = log[k].id
        /\ log[k].t < log[i].t
        /\ calls[log[i].call].res.status = 200
        /\ calls[log[j].call].res.status = 200
        /\ calls[log[k].call].res.status = 404
        /\ tasks[log[k].id] = NoTask

====
